---- MODULE Spec2Model ----
(***************************************************************************)
(* The authorship ledger of Public-Codex.                                  *)
(*                                                                         *)
(* LedgerService (server/src/services/LedgerService.js) appends hash       *)
(* chained entries to the LedgerEntry collection                           *)
(* (server/src/models/LedgerEntry.js) and verifies them.                   *)
(*                                                                         *)
(* Strings are sequences of tokens, so that string concatenation is \o and *)
(* a digest is the hashed string between two bracket tokens: equal inputs  *)
(* give equal digests and different inputs different ones.                 *)
(***************************************************************************)
EXTENDS Naturals, Sequences, FiniteSets, TLC

VARIABLES
    ledger,     \* the LedgerEntry collection, in insertion order
    clock,      \* the wall clock in milliseconds (Date.now())
    call,       \* per caller: the createPoemEntry/updatePoemEntry call in flight
    out,        \* what the last completed LedgerService operation returned or threw
    poems,      \* the Poem collection
    res,        \* the response of the last poem route request
    fs,         \* the file at FileBasedLedger.ledgerPath
    isReady,    \* FileBasedLedger.isReady
    logs,       \* the per-poem log files of FileLedger
    logReady,   \* FileLedger.isReady
    ret,        \* what the last file ledger call returned
    appends     \* per caller: the FileBasedLedger.appendEntry call in flight

routeVars == <<poems, res>>
fileVars == <<fs, isReady, logs, logReady, ret, appends>>
vars == <<ledger, clock, call, out, poems, res, fs, isReady, logs, logReady, ret, appends>>

\* ------------------------------------------------------------------ bounds
MaxEntries == 3
\* the requests in flight at the same time
Callers == {"c1", "c2"}
Poems == {"p1", "p2"}
\* Poem.author of each poem (poemRoutes.js sets it from req.user.id)
AuthorOf(p) == IF p = "p1" THEN "u1" ELSE "u2"
\* the bodies a poem can carry
Bodies == {<<"b">>, <<"c">>}
TitleOf(p) == <<p>>

\* ------------------------------------------------------------ JS values
Null == <<"null">>
Undefined == <<"undefined">>

\* `${author}`: an ObjectId prints as its hex string; a populated mongoose
\* document (Poem.author after .populate) prints as the inspected object.
AuthorString(author) ==
    IF author.shape = "ObjectId" THEN <<author.id>>
    ELSE <<"{", "_id:", author.id, "}">>

\* timestamp.toISOString()
toISOString(t) == <<ToString(t)>>

\* ------------------------------------------------------------ LedgerService
generateContentHash(content) == <<"sha256(">> \o content \o <<")">>

generateBlockHash(contentHash, previousHash, timestamp, authorId) ==
    <<"sha256(">>
        \o (IF previousHash = Null THEN <<"0">> ELSE previousHash)
        \o contentHash \o timestamp \o authorId
        \o <<")">>

PrivateKey == <<"poets-codex-secret">>

generateSignature(data) == <<"hmac(">> \o PrivateKey \o data \o <<")">>

\* ------------------------------------------------------------ LedgerEntry
\* find({ poemId }): the documents of the poem, in insertion order
RECURSIVE SelectPoem(_, _)
SelectPoem(led, p) ==
    IF led = <<>> THEN <<>>
    ELSE IF Head(led).poemId = p
         THEN <<Head(led)>> \o SelectPoem(Tail(led), p)
         ELSE SelectPoem(Tail(led), p)

\* .sort({ createdAt: 1 }): ascending createdAt, ties in insertion order
RECURSIVE InsertSorted(_, _)
InsertSorted(sorted, e) ==
    IF sorted = <<>> THEN <<e>>
    ELSE IF sorted[Len(sorted)].createdAt <= e.createdAt THEN Append(sorted, e)
         ELSE Append(InsertSorted(SubSeq(sorted, 1, Len(sorted) - 1), e),
                     sorted[Len(sorted)])

RECURSIVE sort(_)
sort(entries) ==
    IF entries = <<>> THEN <<>>
    ELSE InsertSorted(sort(SubSeq(entries, 1, Len(entries) - 1)), entries[Len(entries)])

\* (mutant) the chain of every poem at once
getWholeChain(led, p) == sort(led)

getAuthorshipChain(led, p) == sort(SelectPoem(led, p))

ChainLinked(entries) ==
    \A i \in 2..Len(entries) :
        entries[i].previousHash = entries[i - 1].blockHash

\* (mutant) a chain check that does not look at the links
verifyNoLinks(led, p) == TRUE

verifyChainIntegrity(led, p) == ChainLinked(sort(SelectPoem(led, p)))

\* findOne(...).sort({createdAt: -1}): the newest of the entries, or null
NoEntry == [found |-> FALSE, blockHash |-> Null, contentHash |-> Null]

LatestOf(entries) ==
    IF entries = <<>> THEN NoEntry
    ELSE [found |-> TRUE,
          blockHash |-> entries[Len(entries)].blockHash,
          contentHash |-> entries[Len(entries)].contentHash]

\* findOne().sort({createdAt: -1}).select('blockHash')
FindLatest(led) == LatestOf(sort(led))

\* (mutant) the tip of the whole ledger, whatever the poem
FindLatestOfAnyPoem(led, p) == LatestOf(sort(led))

\* findOne({ poemId }).sort({createdAt: -1}).select('blockHash contentHash')
FindLatestOfPoem(led, p) == LatestOf(sort(SelectPoem(led, p)))

\* (mutant) a save that writes over the newest entry
InsertOverTip(led, e) ==
    IF led = <<>> THEN <<e>> ELSE [led EXCEPT ![Len(led)] = e]

\* the collection insert behind ledgerEntry.save()
Insert(led, e) == Append(led, e)

\* the unique index on blockHash
DuplicateKey(led, e) == \E i \in 1..Len(led) : led[i].blockHash = e.blockHash

\* (mutant) a save hook that lets every document through
preSaveOfAnyDocument(isNew) == "next"

\* ledgerEntrySchema.pre('save'): next(error) with error.code =
\* 'IMMUTABLE_LEDGER' unless the document is new, else next()
preSave(isNew) == IF ~isNew THEN "IMMUTABLE_LEDGER" ELSE "next"

\* ledgerEntrySchema.pre('remove') and pre('deleteOne'): always next(error)
preRemove == "IMMUTABLE_LEDGER"

preDeleteOne == "IMMUTABLE_LEDGER"

\* ------------------------------------------------------------ calls
Idle ==
    [pc |-> "idle", op |-> "none", poemId |-> "none", body |-> <<>>,
     author |-> [id |-> "none", shape |-> "ObjectId"], timestamp |-> 0,
     previousEntry |-> NoEntry]

\* the outcome of a createPoemEntry/updatePoemEntry call: the entry it
\* returns, or the error it throws
Outcome(c, r) == [op |-> c.op, poemId |-> c.poemId, ret |-> r]

\* new LedgerEntry({...}) of createPoemEntry and updatePoemEntry
NewEntry(c, createdAt) ==
    LET authorStr == AuthorString(c.author)
        ts == toISOString(c.timestamp)
        contentHash ==
            generateContentHash(TitleOf(c.poemId) \o c.body \o authorStr \o ts)
        previousHash ==
            IF c.op = "createPoemEntry"
            THEN (IF c.previousEntry.found THEN c.previousEntry.blockHash ELSE Null)
            ELSE c.previousEntry.blockHash
        blockHash == generateBlockHash(contentHash, previousHash, ts, authorStr)
    IN  [eventType |-> IF c.op = "createPoemEntry" THEN "POEM_CREATED" ELSE "POEM_UPDATED",
         poemId |-> c.poemId,
         authorId |-> c.author.id,
         contentHash |-> contentHash,
         previousHash |-> previousHash,
         blockHash |-> blockHash,
         title |-> TitleOf(c.poemId),
         originalTimestamp |-> c.timestamp,
         previousVersion |->
            IF c.op = "createPoemEntry" THEN Undefined ELSE c.previousEntry.contentHash,
         signature |-> generateSignature(contentHash \o blockHash \o ts),
         witness |-> generateSignature(<<"witness-">> \o blockHash),
         createdAt |-> createdAt]

InFlight == Cardinality({k \in Callers : call[k].pc # "idle"})

\* every call that starts can still save within the bound
Room == Len(ledger) + InFlight < MaxEntries

\* createPoemEntry(poemData) when findOne answers at once: the timestamp, and
\* the tip that LedgerEntry.findOne().sort({createdAt: -1}) answers
CreateCall(p, b) ==
    [pc |-> "save", op |-> "createPoemEntry", poemId |-> p, body |-> b,
     author |-> [id |-> AuthorOf(p), shape |-> "ObjectId"],
     timestamp |-> clock,
     previousEntry |-> FindLatest(ledger)]

\* createPoemEntry(poemData), to its first await: timestamp = new Date() and
\* the content hash are fixed, findOne is pending
CallCreate(k, p, b) ==
    /\ call[k].pc = "idle"
    /\ Room
    /\ call' = [call EXCEPT ![k] =
                    [CreateCall(p, b) EXCEPT !.pc = "find", !.previousEntry = NoEntry]]
    /\ UNCHANGED <<ledger, clock, out, routeVars, fileVars>>

\* updatePoemEntry(poemData) when findOne answers at once: the timestamp, and
\* the tip that LedgerEntry.findOne({ poemId }).sort({createdAt: -1}) answers
UpdateCall(p, b, shape) ==
    [pc |-> "save", op |-> "updatePoemEntry", poemId |-> p, body |-> b,
     author |-> [id |-> AuthorOf(p), shape |-> shape],
     timestamp |-> clock,
     previousEntry |-> FindLatestOfPoem(ledger, p)]

\* updatePoemEntry(poemData), to its first await: timestamp = new Date() and
\* the content hash are fixed, findOne({ poemId }) is pending
CallUpdate(k, p, b, shape) ==
    /\ call[k].pc = "idle"
    /\ Room
    /\ call' = [call EXCEPT ![k] =
                    [UpdateCall(p, b, shape) EXCEPT !.pc = "find", !.previousEntry = NoEntry]]
    /\ UNCHANGED <<ledger, clock, out, routeVars, fileVars>>

\* (mutant) an updatePoemEntry that goes on without a previous entry
FindPreviousOrNone(k) ==
    /\ call[k].pc = "find"
    /\ LET c == call[k]
           previousEntry ==
                IF c.op = "createPoemEntry" THEN FindLatest(ledger)
                ELSE FindLatestOfPoem(ledger, c.poemId)
       IN  call' = [call EXCEPT ![k] =
                        [c EXCEPT !.pc = "save", !.previousEntry = previousEntry]]
    /\ UNCHANGED <<ledger, clock, out, routeVars, fileVars>>

\* the pending findOne answers with the tip as the store holds it now;
\* updatePoemEntry throws when there is none
FindPrevious(k) ==
    /\ call[k].pc = "find"
    /\ LET c == call[k]
           previousEntry ==
                IF c.op = "createPoemEntry" THEN FindLatest(ledger)
                ELSE FindLatestOfPoem(ledger, c.poemId)
       IN  IF c.op = "updatePoemEntry" /\ ~previousEntry.found
           THEN /\ call' = [call EXCEPT ![k] = Idle]
                /\ out' = Outcome(c, "No previous ledger entry found for poem update")
           ELSE /\ call' = [call EXCEPT ![k] =
                                [c EXCEPT !.pc = "save", !.previousEntry = previousEntry]]
                /\ UNCHANGED out
    /\ UNCHANGED <<ledger, clock, routeVars, fileVars>>

\* await ledgerEntry.save() of the new document: the save hook, then the
\* insert or the duplicate key error
Save(k) ==
    /\ call[k].pc = "save"
    /\ LET e == NewEntry(call[k], clock)
       IN  IF preSave(TRUE) # "next"
           THEN /\ out' = Outcome(call[k], preSave(TRUE))
                /\ UNCHANGED <<ledger, clock>>
           ELSE IF DuplicateKey(ledger, e)
           THEN /\ out' = Outcome(call[k], "E11000 duplicate key")
                /\ UNCHANGED <<ledger, clock>>
           ELSE /\ out' = Outcome(call[k], "ledgerEntry")
                /\ ledger' = Insert(ledger, e)
                /\ clock' = clock + 1
    /\ call' = [call EXCEPT ![k] = Idle]
    /\ UNCHANGED <<routeVars, fileVars>>

\* (mutant) a save that fails after the entry was stored without its signature
SaveLeavesPartialEntry(k) ==
    /\ call[k].pc = "save"
    /\ call' = [call EXCEPT ![k] = Idle]
    /\ out' = Outcome(call[k], "store error")
    /\ ledger' = Append(ledger, [NewEntry(call[k], clock) EXCEPT !.signature = Undefined])
    /\ UNCHANGED <<clock, routeVars, fileVars>>

\* await ledgerEntry.save() rejected by the store (I/O failure)
SaveFails(k) ==
    /\ call[k].pc = "save"
    /\ call' = [call EXCEPT ![k] = Idle]
    /\ out' = Outcome(call[k], "store error")
    /\ UNCHANGED <<ledger, clock, routeVars, fileVars>>

\* ------------------------------------------------------------ reads
\* what threw, as the catch blocks rethrow it
Thrown(op, p, msg) == [op |-> op, poemId |-> p, status |-> "throw", error |-> msg]

\* the string whose digest h is
Preimage(h) == SubSeq(h, 2, Len(h) - 1)

\* entries.map(entry => ({eventType, timestamp, author, contentHash}))
EntrySummaries(entries) ==
    [i \in 1..Len(entries) |->
        [eventType |-> entries[i].eventType,
         timestamp |-> entries[i].createdAt,
         author |-> entries[i].authorId,
         contentHash |-> entries[i].contentHash]]

\* verifyAuthorship(poemId, currentContent); crypto's hash.update(undefined)
\* throws ERR_INVALID_ARG_TYPE before anything is read
verifyAuthorship(led, p, currentContent) ==
    IF currentContent = Undefined
    THEN Thrown("verifyAuthorship", p, "ERR_INVALID_ARG_TYPE")
    ELSE
    LET currentHash == generateContentHash(currentContent)
        entries == getAuthorshipChain(led, p)
        chainValid == verifyChainIntegrity(led, p)
        latestEntry == entries[Len(entries)]
    IN  IF Len(entries) = 0
        THEN [op |-> "verifyAuthorship", poemId |-> p, status |-> "ok",
              isValid |-> FALSE, reason |-> "No ledger entries found"]
        ELSE IF ~chainValid
        THEN [op |-> "verifyAuthorship", poemId |-> p, status |-> "ok",
              isValid |-> FALSE, reason |-> "Ledger chain integrity compromised"]
        ELSE [op |-> "verifyAuthorship", poemId |-> p, status |-> "ok",
              isValid |-> (latestEntry.contentHash = currentHash) /\ chainValid,
              reason |-> "none",
              originalAuthor |-> entries[1].authorId,
              creationDate |-> entries[1].createdAt,
              lastModified |-> latestEntry.createdAt,
              totalModifications |-> Len(entries) - 1,
              entries |-> EntrySummaries(entries)]

\* getAuthorshipHistory(poemId)
getAuthorshipHistory(led, p) ==
    LET entries == getAuthorshipChain(led, p)
    IN  [op |-> "getAuthorshipHistory", poemId |-> p, status |-> "ok",
         history |-> [i \in 1..Len(entries) |->
            [eventType |-> entries[i].eventType,
             timestamp |-> entries[i].createdAt,
             author |-> entries[i].authorId,
             title |-> entries[i].title,
             originalTimestamp |-> entries[i].originalTimestamp,
             blockHash |-> entries[i].blockHash,
             isVerified |-> TRUE]]]

\* A certificate object is a record of the nine properties, the set `keys` of
\* those it really has, and isNull for the value null.
CertificateKeys ==
    {"poemId", "certificateId", "issuedAt", "originalAuthor", "creationDate",
     "lastVerified", "chainLength", "certificateHash", "digitalSignature"}

\* "key":value of JSON.stringify, nothing for a property the object lacks
Member(cert, k, text) == IF k \in cert.keys THEN <<k, ":">> \o text ELSE <<>>

\* JSON.stringify({...certificate, certificateHash: undefined,
\* digitalSignature: undefined}): the other properties, in the order they were
\* set; {...null} is the empty object
CertificateData(cert) ==
    IF cert.isNull THEN <<"{", "}">>
    ELSE <<"{">>
        \o Member(cert, "poemId", <<cert.poemId>>)
        \o Member(cert, "certificateId", <<cert.certificateId>>)
        \o Member(cert, "issuedAt", toISOString(cert.issuedAt))
        \o Member(cert, "originalAuthor", <<cert.originalAuthor>>)
        \o Member(cert, "creationDate", toISOString(cert.creationDate))
        \o Member(cert, "lastVerified", toISOString(cert.lastVerified))
        \o Member(cert, "chainLength", <<ToString(cert.chainLength)>>)
        \o <<"}">>

\* certificate.certificateHash, certificate.digitalSignature, certificate.poemId
CertificateHashOf(cert) ==
    IF "certificateHash" \in cert.keys THEN cert.certificateHash ELSE Undefined

DigitalSignatureOf(cert) ==
    IF "digitalSignature" \in cert.keys THEN cert.digitalSignature ELSE Undefined

PoemIdOf(cert) == IF "poemId" \in cert.keys THEN cert.poemId ELSE "undefined"

\* the certificate generateAuthorshipCertificate builds from a verification
BuildCertificate(p, verification, uuid, now) ==
    LET certificate ==
            [poemId |-> p,
             certificateId |-> uuid,
             issuedAt |-> now,
             originalAuthor |-> verification.originalAuthor,
             creationDate |-> verification.creationDate,
             lastVerified |-> now,
             chainLength |-> Len(verification.entries),
             certificateHash |-> <<>>,
             digitalSignature |-> <<>>,
             keys |-> CertificateKeys,
             isNull |-> FALSE]
        certificateData == CertificateData(certificate)
    IN  [certificate EXCEPT
            !.certificateHash = generateContentHash(certificateData),
            !.digitalSignature = generateSignature(certificateData)]

\* (mutant) a certificate issued without looking at the verification
generateUnverifiedCertificate(led, p, uuid, now) ==
    [op |-> "generateAuthorshipCertificate", poemId |-> p, status |-> "ok",
     certificate |->
        BuildCertificate(p, [originalAuthor |-> AuthorOf(p), creationDate |-> 0,
                             entries |-> getAuthorshipChain(led, p)], uuid, now)]

\* generateAuthorshipCertificate(poemId): verifyAuthorship is called without
\* the content
generateAuthorshipCertificate(led, p, uuid, now) ==
    LET verification == verifyAuthorship(led, p, Undefined)
    IN  IF verification.status = "throw"
        THEN Thrown("generateAuthorshipCertificate", p, verification.error)
        ELSE IF ~verification.isValid
        THEN Thrown("generateAuthorshipCertificate", p,
                    "Cannot generate certificate for invalid authorship")
        ELSE [op |-> "generateAuthorshipCertificate", poemId |-> p, status |-> "ok",
              certificate |-> BuildCertificate(p, verification, uuid, now)]

\* validateCertificate(certificate): certificate.certificateHash of null is a
\* TypeError; verifyAuthorship is called without the content
validateCertificate(led, cert) ==
    LET certificateData == CertificateData(cert)
        expectedHash == generateContentHash(certificateData)
        expectedSignature == generateSignature(certificateData)
        hashValid == CertificateHashOf(cert) = expectedHash
        signatureValid == DigitalSignatureOf(cert) = expectedSignature
        currentVerification == verifyAuthorship(led, PoemIdOf(cert), Undefined)
    IN  IF cert.isNull
        THEN Thrown("validateCertificate", "undefined", "TypeError")
        ELSE IF currentVerification.status = "throw"
        THEN Thrown("validateCertificate", PoemIdOf(cert), currentVerification.error)
        ELSE [op |-> "validateCertificate", poemId |-> PoemIdOf(cert), status |-> "ok",
              isValid |-> hashValid /\ signatureValid /\ currentVerification.isValid,
              certificateIntegrity |-> hashValid /\ signatureValid,
              poemIntegrity |-> currentVerification.isValid,
              hashMatch |-> hashValid,
              signatureMatch |-> signatureValid,
              poemExists |-> TRUE,
              chainIntact |-> currentVerification.isValid]

\* getLedgerStats()
getLedgerStats(led) ==
    LET idx == 1..Len(led)
    IN  [op |-> "getLedgerStats", poemId |-> "none", status |-> "ok",
         totalEntries |-> Len(led),
         uniquePoems |-> Cardinality({led[i].poemId : i \in idx}),
         uniqueAuthors |-> Cardinality({led[i].authorId : i \in idx}),
         eventTypes |-> [t \in {led[i].eventType : i \in idx} |->
                            Cardinality({i \in idx : led[i].eventType = t})]]

\* the contents a caller verifies a poem against: none, a text that was never
\* recorded, and the texts its entries recorded
Contents(led, p) ==
    {Undefined, <<"x">>}
        \cup {Preimage(led[i].contentHash) : i \in {j \in 1..Len(led) : led[j].poemId = p}}

\* the certificates presented for validation: for every prefix of the ledger
\* in which the poem verifies against its latest text, the certificate built
\* from that verification, as issued; those of the whole ledger also with
\* one property altered, and malformed
Prefixes(led) == {SubSeq(led, 1, n) : n \in 0..Len(led)}

LatestContent(led, p) ==
    LET entries == getAuthorshipChain(led, p)
    IN  IF entries = <<>> THEN <<"x">> ELSE Preimage(entries[Len(entries)].contentHash)

IssuableFrom(led, p) ==
    LET v == verifyAuthorship(led, p, LatestContent(led, p))
    IN  IF v.isValid THEN {BuildCertificate(p, v, "uuid", Len(led))} ELSE {}

IssuedCertificates(led) ==
    UNION {IssuableFrom(l, p) : l \in Prefixes(led), p \in Poems}

\* the certificates that can be issued from the ledger as it is
CurrentCertificates(led) == UNION {IssuableFrom(led, p) : p \in Poems}

\* the properties that the certificate hash covers
HashedKeys == CertificateKeys \ {"certificateHash", "digitalSignature"}

\* the certificate with another value for property k
Alter(c, k) ==
    IF k = "poemId" THEN [c EXCEPT !.poemId = IF @ = "p1" THEN "p2" ELSE "p1"]
    ELSE IF k = "certificateId" THEN [c EXCEPT !.certificateId = "uuid-2"]
    ELSE IF k = "issuedAt" THEN [c EXCEPT !.issuedAt = @ + 1]
    ELSE IF k = "originalAuthor" THEN [c EXCEPT !.originalAuthor = IF @ = "u1" THEN "u2" ELSE "u1"]
    ELSE IF k = "creationDate" THEN [c EXCEPT !.creationDate = @ + 1]
    ELSE IF k = "lastVerified" THEN [c EXCEPT !.lastVerified = @ + 1]
    ELSE [c EXCEPT !.chainLength = @ + 1]

AlteredFrom(issued) == {Alter(c, k) : c \in issued, k \in HashedKeys}

AlteredCertificates(led) == AlteredFrom(CurrentCertificates(led))

\* null, {} and certificates that lack a property
EmptyCertificate ==
    [poemId |-> "undefined", certificateId |-> "undefined", issuedAt |-> 0,
     originalAuthor |-> "undefined", creationDate |-> 0, lastVerified |-> 0,
     chainLength |-> 0, certificateHash |-> Undefined, digitalSignature |-> Undefined,
     keys |-> {}, isNull |-> FALSE]

NullCertificate == [EmptyCertificate EXCEPT !.isNull = TRUE]

MalformedFrom(issued) ==
    {NullCertificate, EmptyCertificate}
        \cup {[c EXCEPT !.keys = @ \ {k}] :
                c \in issued,
                k \in {"poemId", "certificateHash", "digitalSignature"}}

MalformedCertificates(led) == MalformedFrom(CurrentCertificates(led))

Certificates(led) ==
    LET current == CurrentCertificates(led)
    IN  IssuedCertificates(led) \cup AlteredFrom(current) \cup MalformedFrom(current)

VerifyAuthorship(p, content) ==
    /\ out' = verifyAuthorship(ledger, p, content)
    /\ UNCHANGED <<ledger, clock, call, routeVars, fileVars>>

VerifyChainIntegrity(p) ==
    /\ out' = [op |-> "verifyChainIntegrity", poemId |-> p, status |-> "ok",
               valid |-> verifyChainIntegrity(ledger, p)]
    /\ UNCHANGED <<ledger, clock, call, routeVars, fileVars>>

GetAuthorshipHistory(p) ==
    /\ out' = getAuthorshipHistory(ledger, p)
    /\ UNCHANGED <<ledger, clock, call, routeVars, fileVars>>

GenerateAuthorshipCertificate(p) ==
    /\ out' = generateAuthorshipCertificate(ledger, p, "uuid", clock)
    /\ UNCHANGED <<ledger, clock, call, routeVars, fileVars>>

ValidateCertificate(cert) ==
    /\ out' = validateCertificate(ledger, cert)
    /\ UNCHANGED <<ledger, clock, call, routeVars, fileVars>>

GetLedgerStats ==
    /\ out' = getLedgerStats(ledger)
    /\ UNCHANGED <<ledger, clock, call, routeVars, fileVars>>

\* ------------------------------------------------------------ poem routes
\* app.locals as initializeServices of server.js sets it: eventBus is never
\* set, fileLedger is a FileBasedLedger
ledgerService == "LedgerService"
fileLedger == "FileBasedLedger"
eventBus == "undefined"

\* the methods of the two file ledger classes
HasMethod(obj, m) ==
    \/ obj = "FileBasedLedger"
        /\ m \in {"initialize", "appendEntry", "getEntries", "verifyIntegrity", "getStats"}
    \/ obj = "FileLedger" /\ m = "append"

\* req.app.locals.fileLedger?.append(...): skipped when fileLedger is
\* undefined, a TypeError when fileLedger has no append
FileLedgerAppendThrows == fileLedger # "undefined" /\ ~HasMethod(fileLedger, "append")

\* generateContentHash(title, body, author) of poemRoutes.js
RouteContentHash(title, body, author) ==
    <<"sha256(">> \o title \o body \o <<author>> \o <<")">>

NoPoem == [exists |-> FALSE, body |-> <<>>, contentHash |-> <<>>]

PoemDoc(p, b) ==
    [exists |-> TRUE, body |-> b,
     contentHash |-> RouteContentHash(TitleOf(p), b, AuthorOf(p))]

Response(route, p, status) == [route |-> route, poemId |-> p, status |-> status]

\* a whole createPoemEntry/updatePoemEntry call c awaited by a route, its
\* error caught and logged by the route: the ledger afterwards
LedgerAfter(c, storeOk) ==
    LET e == NewEntry(c, clock)
    IN  IF c.op = "updatePoemEntry" /\ ~c.previousEntry.found THEN ledger
        ELSE IF ~storeOk \/ DuplicateKey(ledger, e) THEN ledger
        ELSE Insert(ledger, e)

AwaitLedger(c, storeOk) ==
    /\ ledger' = LedgerAfter(c, storeOk)
    /\ clock' = IF ledger' # ledger THEN clock + 1 ELSE clock

\* router.post('/'): poem.save(), then the file ledger, then createPoemEntry
PostPoem(p, b, storeOk) ==
    /\ ~poems[p].exists
    /\ Len(ledger) < MaxEntries
    /\ poems' = [poems EXCEPT ![p] = PoemDoc(p, b)]
    /\ IF FileLedgerAppendThrows
       THEN /\ res' = Response("POST", p, 500)
            /\ UNCHANGED <<ledger, clock>>
       ELSE /\ IF ledgerService # "undefined"
               THEN AwaitLedger(CreateCall(p, b), storeOk)
               ELSE UNCHANGED <<ledger, clock>>
            /\ res' = Response("POST", p, 201)
    /\ UNCHANGED <<call, out, fileVars>>

\* router.put('/:id'): findByIdAndUpdate(...).populate('author'), then
\* updatePoemEntry, then the file ledger
PutPoem(p, b, storeOk) ==
    /\ Len(ledger) < MaxEntries
    /\ IF ~poems[p].exists
       THEN /\ res' = Response("PUT", p, 404)
            /\ UNCHANGED <<poems, ledger, clock>>
       ELSE /\ poems' = [poems EXCEPT ![p] = PoemDoc(p, b)]
            /\ IF ledgerService # "undefined"
               THEN AwaitLedger(UpdateCall(p, b, "Document"), storeOk)
               ELSE UNCHANGED <<ledger, clock>>
            /\ res' = Response("PUT", p, IF FileLedgerAppendThrows THEN 500 ELSE 200)
    /\ UNCHANGED <<call, out, fileVars>>

\* router.delete('/:id'): findByIdAndDelete, then the file ledger; the ledger
\* service is not called
DeletePoem(p) ==
    /\ IF ~poems[p].exists
       THEN /\ res' = Response("DELETE", p, 404)
            /\ UNCHANGED poems
       ELSE /\ poems' = [poems EXCEPT ![p] = NoPoem]
            /\ res' = Response("DELETE", p, IF FileLedgerAppendThrows THEN 500 ELSE 200)
    /\ UNCHANGED <<ledger, clock, call, out, fileVars>>

\* ------------------------------------------------------------ JSON
\* An object is the sequence of its <<key, value>> pairs in insertion order;
\* its JSON text is "{", the keys and values in that order, "}", without the
\* properties whose value is undefined.
RECURSIVE Flatten(_)
Flatten(obj) ==
    IF obj = <<>> THEN <<>>
    ELSE IF Head(obj)[2] = "undefined" THEN Flatten(Tail(obj))
         ELSE <<Head(obj)[1], Head(obj)[2]>> \o Flatten(Tail(obj))

JSONstringify(obj) == <<"{">> \o Flatten(obj) \o <<"}">>

HasKey(obj, k) == \E i \in 1..Len(obj) : obj[i][1] = k

\* obj[k], or the token "undefined"
Get(obj, k) ==
    IF HasKey(obj, k)
    THEN obj[CHOOSE i \in 1..Len(obj) : obj[i][1] = k][2]
    ELSE "undefined"

\* {...obj, [k]: v}: an existing key keeps its place, a new one goes last
SetKey(obj, k, v) ==
    IF HasKey(obj, k)
    THEN [i \in 1..Len(obj) |-> IF obj[i][1] = k THEN <<k, v>> ELSE obj[i]]
    ELSE Append(obj, <<k, v>>)

\* const { [k]: _, ...rest } = obj
RECURSIVE Without(_, _)
Without(obj, k) ==
    IF obj = <<>> THEN <<>>
    ELSE IF Head(obj)[1] = k THEN Without(Tail(obj), k)
         ELSE <<Head(obj)>> \o Without(Tail(obj), k)

\* whether JSON.parse(text) returns rather than throws
Parses(text) ==
    /\ Len(text) >= 2
    /\ text[1] = "{"
    /\ text[Len(text)] = "}"
    /\ (Len(text) - 2) % 2 = 0
    /\ \A i \in 2..(Len(text) - 1) : text[i] \notin {"{", "}", "\n"}

\* JSON.parse(text) of a text that parses
JSONparse(text) ==
    [i \in 1..((Len(text) - 2) \div 2) |-> <<text[2 * i], text[2 * i + 1]>>]

\* content.split('\n')
RECURSIVE Split(_, _)
Split(content, cur) ==
    IF content = <<>> THEN <<cur>>
    ELSE IF Head(content) = "\n" THEN <<cur>> \o Split(Tail(content), <<>>)
         ELSE Split(Tail(content), Append(cur, Head(content)))

\* content.trim(): the line feeds at both ends go
RECURSIVE TrimStart(_)
TrimStart(content) ==
    IF content # <<>> /\ Head(content) = "\n" THEN TrimStart(Tail(content)) ELSE content

RECURSIVE TrimEnd(_)
TrimEnd(content) ==
    IF content # <<>> /\ content[Len(content)] = "\n"
    THEN TrimEnd(SubSeq(content, 1, Len(content) - 1))
    ELSE content

trim(content) == TrimEnd(TrimStart(content))

RECURSIVE SelectSeq2(_, _, _, _)
\* entries.filter(entry => entry[k] === v), when the filter gives k
SelectSeq2(entries, k, v, given) ==
    IF ~given \/ entries = <<>> THEN entries
    ELSE IF Get(Head(entries), k) = v
         THEN <<Head(entries)>> \o SelectSeq2(Tail(entries), k, v, given)
         ELSE SelectSeq2(Tail(entries), k, v, given)

\* ------------------------------------------------------------ FileBasedLedger
MaxLines == 3

NoFile == [exists |-> FALSE, content |-> <<>>]
NoRet == [api |-> "none", wrote |-> FALSE, returned |-> "none", value |-> <<>>]

LineCount(content) == Cardinality({i \in 1..Len(content) : content[i] = "\n"})

\* the digest as the hex string that is stored in the line
Hex(digest) == ToString(digest)

\* the ledgerEntry appendEntry builds: {...entry, timestamp, entryHash}
FileLedgerEntry(entry, now) ==
    LET timestamp == ToString(now)
        entryHash == Hex(<<"sha256(">> \o JSONstringify(entry) \o <<timestamp>> \o <<")">>)
    IN  SetKey(SetKey(entry, "timestamp", timestamp), "entryHash", entryHash)

\* (mutant) the line without its line feed
LineWithoutFeed(ledgerEntry) == JSONstringify(ledgerEntry)

\* const line = JSON.stringify(ledgerEntry) + '\n'
Line(ledgerEntry) == JSONstringify(ledgerEntry) \o <<"\n">>

FileLine(entry, now) == Line(FileLedgerEntry(entry, now))

NoAppend == [pc |-> "idle", ledgerEntry |-> <<>>]

AppendsInFlight == Cardinality({k \in Callers : appends[k].pc = "appendFile"})

\* initialize() when no other call of it is in flight: mkdir, then
\* writeFile(ledgerPath, '') when access fails
Initialize(mkdirOk, writeOk) ==
    /\ IF ~mkdirOk
       THEN /\ isReady' = FALSE
            /\ UNCHANGED fs
       ELSE IF fs.exists
       THEN /\ isReady' = TRUE
            /\ UNCHANGED fs
       ELSE IF writeOk
       THEN /\ fs' = [exists |-> TRUE, content |-> <<>>]
            /\ isReady' = TRUE
       ELSE /\ isReady' = FALSE
            /\ UNCHANGED fs
    /\ ret' = [NoRet EXCEPT !.api = "initialize"]
    /\ UNCHANGED <<ledger, clock, call, out, routeVars, logs, logReady, appends>>

\* initialize(), to its last await: mkdir, then access; when access fails
\* fs.writeFile(ledgerPath, '') is pending, else the call is over
InitializeAccess(k, mkdirOk) ==
    /\ appends[k].pc = "idle"
    /\ IF ~mkdirOk
       THEN /\ isReady' = FALSE
            /\ ret' = [NoRet EXCEPT !.api = "initialize"]
            /\ UNCHANGED appends
       ELSE IF fs.exists
       THEN /\ isReady' = TRUE
            /\ ret' = [NoRet EXCEPT !.api = "initialize"]
            /\ UNCHANGED appends
       ELSE /\ appends' = [appends EXCEPT ![k] = [pc |-> "writeFile", ledgerEntry |-> <<>>]]
            /\ UNCHANGED <<isReady, ret>>
    /\ UNCHANGED <<ledger, clock, call, out, routeVars, fs, logs, logReady>>

\* the pending fs.writeFile(ledgerPath, '') resolves, the file created or
\* truncated to nothing, or rejects
InitializeWrite(k, writeOk) ==
    /\ appends[k].pc = "writeFile"
    /\ IF writeOk
       THEN /\ fs' = [exists |-> TRUE, content |-> <<>>]
            /\ isReady' = TRUE
       ELSE /\ isReady' = FALSE
            /\ UNCHANGED fs
    /\ ret' = [NoRet EXCEPT !.api = "initialize"]
    /\ appends' = [appends EXCEPT ![k] = NoAppend]
    /\ UNCHANGED <<ledger, clock, call, out, routeVars, logs, logReady>>

\* appendEntry(entry), to its await: null when not ready, else the timestamp
\* and the ledgerEntry are fixed and fs.appendFile is pending
CallAppendEntry(k, entry) ==
    /\ appends[k].pc = "idle"
    /\ LineCount(fs.content) + AppendsInFlight < MaxLines
    /\ IF isReady
       THEN /\ appends' = [appends EXCEPT ![k] =
                    [pc |-> "appendFile", ledgerEntry |-> FileLedgerEntry(entry, clock)]]
            /\ UNCHANGED ret
       ELSE /\ ret' = [api |-> "appendEntry", wrote |-> FALSE, returned |-> "null",
                       value |-> <<>>]
            /\ UNCHANGED appends
    /\ UNCHANGED <<ledger, clock, call, out, routeVars, fs, isReady, logs, logReady>>

\* the pending fs.appendFile(ledgerPath, line) resolves, the line written at
\* the end of the file by one write of the file opened for appending, or
\* rejects; appendEntry returns the ledgerEntry, or null from its catch
AppendFile(k, ioOk) ==
    /\ appends[k].pc = "appendFile"
    /\ IF ioOk
       THEN /\ fs' = [exists |-> TRUE,
                      content |-> fs.content \o Line(appends[k].ledgerEntry)]
            /\ ret' = [api |-> "appendEntry", wrote |-> TRUE, returned |-> "entry",
                       value |-> <<appends[k].ledgerEntry>>]
            /\ clock' = clock + 1
       ELSE /\ ret' = [api |-> "appendEntry", wrote |-> FALSE, returned |-> "null",
                       value |-> <<>>]
            /\ UNCHANGED <<fs, clock>>
    /\ appends' = [appends EXCEPT ![k] = NoAppend]
    /\ UNCHANGED <<ledger, call, out, routeVars, isReady, logs, logReady>>

\* the process dies while the pending appendFile is writing: the first n
\* tokens of the line are in the file, every call in flight is gone, and the
\* next process starts not ready
CrashInAppend(k, n) ==
    /\ appends[k].pc = "appendFile"
    /\ IF fs.content = <<>> THEN TRUE ELSE fs.content[Len(fs.content)] = "\n"
    /\ n < Len(Line(appends[k].ledgerEntry)) - 1
    /\ fs' = [exists |-> TRUE,
              content |-> fs.content \o SubSeq(Line(appends[k].ledgerEntry), 1, n)]
    /\ isReady' = FALSE
    /\ ret' = NoRet
    /\ appends' = [c \in Callers |-> NoAppend]
    /\ UNCHANGED <<ledger, clock, call, out, routeVars, logs, logReady>>

\* lines.map(line => JSON.parse(line)) and the three filters; [] when a line
\* does not parse (the catch) or when not ready
getEntries(content, filter) ==
    LET all == Split(trim(content), <<>>)
        lines == SelectSeq(all, LAMBDA line : line # <<>>)
        entries == [i \in 1..Len(lines) |-> JSONparse(lines[i])]
        byPoem == SelectSeq2(entries, "poemId", Get(filter, "poemId"), HasKey(filter, "poemId"))
        byAuthor == SelectSeq2(byPoem, "authorId", Get(filter, "authorId"), HasKey(filter, "authorId"))
    IN  IF \E i \in 1..Len(lines) : ~Parses(lines[i]) THEN <<>>
        ELSE SelectSeq2(byAuthor, "eventType", Get(filter, "eventType"), HasKey(filter, "eventType"))

GetEntries(filter) ==
    /\ ret' = [api |-> "getEntries", wrote |-> FALSE, returned |-> "entries",
               value |-> IF isReady /\ fs.exists THEN getEntries(fs.content, filter) ELSE <<>>,
               filter |-> filter]
    /\ UNCHANGED <<ledger, clock, call, out, routeVars, fs, isReady, logs, logReady, appends>>

\* const { entryHash, timestamp, ...entryData } = entry and the digest of
\* JSON.stringify(entryData) + timestamp, as verifyIntegrity computes it
ExpectedHash(entry) ==
    LET entryData == Without(Without(entry, "entryHash"), "timestamp")
    IN  Hex(<<"sha256(">> \o JSONstringify(entryData)
                \o <<Get(entry, "timestamp")>> \o <<")">>)

\* (mutant) an integrity check that trusts a ledger that is not ready
verifyIntegrityOfAnyState(ready, readOk, content) ==
    LET entries == IF readOk THEN getEntries(content, <<>>) ELSE <<>>
    IN  \A i \in 1..Len(entries) :
            Get(entries[i], "entryHash") = ExpectedHash(entries[i])

\* verifyIntegrity(): false when not ready; else over the entries that
\* this.getEntries() returns ([] when the file cannot be read or a line does
\* not parse), the expected hash of each is compared with its entryHash
verifyIntegrity(ready, readOk, content) ==
    IF ~ready THEN FALSE
    ELSE
    LET entries == IF readOk THEN getEntries(content, <<>>) ELSE <<>>
    IN  \A i \in 1..Len(entries) :
            Get(entries[i], "entryHash") = ExpectedHash(entries[i])

VerifyIntegrity(readOk) ==
    /\ ret' = [api |-> "verifyIntegrity", wrote |-> FALSE,
               returned |-> IF verifyIntegrity(isReady, readOk /\ fs.exists, fs.content)
                            THEN "true" ELSE "false",
               value |-> <<>>,
               readOk |-> readOk /\ fs.exists]
    /\ UNCHANGED <<ledger, clock, call, out, routeVars, fs, isReady, logs, logReady, appends>>

\* getStats(): { totalEntries: 0 } when not ready; else the count of the
\* entries, the count per entry.eventType and integrityValid
getStats(ready, content) ==
    IF ~ready
    THEN [keys |-> {"totalEntries"}, totalEntries |-> 0, eventTypes |-> <<>>,
          integrityValid |-> FALSE]
    ELSE
    LET entries == getEntries(content, <<>>)
        idx == 1..Len(entries)
    IN  [keys |-> {"totalEntries", "eventTypes", "integrityValid"},
         totalEntries |-> Len(entries),
         eventTypes |-> [t \in {Get(entries[i], "eventType") : i \in idx} |->
                            Cardinality({i \in idx : Get(entries[i], "eventType") = t})],
         integrityValid |-> verifyIntegrity(ready, TRUE, content)]

GetStats ==
    /\ ret' = [api |-> "getStats", wrote |-> FALSE, returned |-> "stats",
               value |-> <<>>, stats |-> getStats(isReady, fs.content)]
    /\ UNCHANGED <<ledger, clock, call, out, routeVars, fs, isReady, logs, logReady, appends>>

\* ------------------------------------------------------------ FileLedger
\* new FileLedger(baseDir): mkdirSync decides isReady
NewFileLedger(mkdirOk) ==
    /\ logReady' = mkdirOk
    /\ ret' = [NoRet EXCEPT !.api = "FileLedger"]
    /\ UNCHANGED <<ledger, clock, call, out, routeVars, fs, isReady, logs, appends>>

\* append(poemId, eventType, payload): returns nothing, whatever happened
Append_(p, eventType, ioOk) ==
    /\ LineCount(logs[p]) < MaxLines
    /\ IF logReady /\ ioOk
       THEN /\ logs' = [logs EXCEPT ![p] =
                    @ \o JSONstringify(<< <<"t", ToString(clock)>>,
                                          <<"eventType", eventType>>,
                                          <<"payload", "{}">> >>) \o <<"\n">>]
            /\ ret' = [api |-> "append", wrote |-> TRUE, returned |-> "undefined",
                       value |-> <<>>]
       ELSE /\ ret' = [api |-> "append", wrote |-> FALSE, returned |-> "undefined",
                       value |-> <<>>]
            /\ UNCHANGED logs
    /\ UNCHANGED <<ledger, clock, call, out, routeVars, fs, isReady, logReady, appends>>

\* the objects the callers append, and the filters they read with
FileEntries ==
    { << <<"type", "USER_LOGIN">>, <<"userId", "u1">>, <<"timestamp", ToString(clock)>>,
         <<"userAgent", "undefined">> >>,
      << <<"eventType", "POEM_CREATED">>, <<"poemId", "p1">>, <<"authorId", "u1">> >>,
      << <<"eventType", "POEM_UPDATED">>, <<"poemId", "p2">>, <<"authorId", "u2">> >> }

\* where a write is cut off: after the opening brace, or inside the object
CutPoints == {1, 4}

Filters ==
    { <<>>, << <<"poemId", "p1">> >>, << <<"authorId", "u2">> >>,
      << <<"eventType", "POEM_CREATED">>, <<"poemId", "p1">> >> }

NoOut == [op |-> "none", poemId |-> "none", ret |-> "none"]

Init ==
    /\ ledger = <<>>
    /\ clock = 0
    /\ call = [k \in Callers |-> Idle]
    /\ out = NoOut
    /\ poems = [p \in Poems |-> NoPoem]
    /\ res = Response("none", "none", 0)
    /\ fs = NoFile
    /\ isReady = FALSE
    /\ logs = [p \in Poems |-> <<>>]
    /\ logReady = TRUE
    /\ ret = NoRet
    /\ appends = [k \in Callers |-> NoAppend]

\* updatePoemEntry is given the poem as router.put has it, its author populated
Next ==
    \/ \E k \in Callers, p \in Poems, b \in Bodies : CallCreate(k, p, b)
    \/ \E k \in Callers, p \in Poems, b \in Bodies : CallUpdate(k, p, b, "Document")
    \/ \E k \in Callers : FindPrevious(k)
    \/ \E k \in Callers : Save(k)
    \/ \E k \in Callers : SaveFails(k)
    \/ \E p \in Poems : \E content \in Contents(ledger, p) : VerifyAuthorship(p, content)
    \/ \E p \in Poems : VerifyChainIntegrity(p)
    \/ \E p \in Poems : GetAuthorshipHistory(p)
    \/ \E p \in Poems : GenerateAuthorshipCertificate(p)
    \/ \E cert \in IssuedCertificates(ledger) \cup {NullCertificate} :
            ValidateCertificate(cert)
    \/ GetLedgerStats

Spec == Init /\ [][Next]_vars

\* ------------------------------------------------------------ one at a time
AllIdle == \A k \in Callers : call[k].pc = "idle"

NotCreated(p) ==
    \A i \in 1..Len(ledger) :
        ~(ledger[i].poemId = p /\ ledger[i].eventType = "POEM_CREATED")

\* each call completes before the next starts, so that one caller makes them
\* all, and a poem is created once
NextSeq ==
    \/ \E p \in Poems, b \in Bodies :
            AllIdle /\ NotCreated(p) /\ CallCreate("c1", p, b)
    \/ \E p \in Poems, b \in Bodies, s \in {"ObjectId", "Document"} :
            AllIdle /\ CallUpdate("c1", p, b, s)
    \/ \E k \in Callers : FindPrevious(k)
    \/ \E k \in Callers : Save(k)
    \/ \E k \in Callers : SaveFails(k)
    \/ \E p \in Poems : \E content \in Contents(ledger, p) : VerifyAuthorship(p, content)
    \/ \E p \in Poems : VerifyChainIntegrity(p)
    \/ \E p \in Poems : GetAuthorshipHistory(p)
    \/ \E p \in Poems : GenerateAuthorshipCertificate(p)
    \/ \E cert \in Certificates(ledger) : ValidateCertificate(cert)
    \/ GetLedgerStats

\* (validateCertificate is given altered and malformed certificates here,
\* certificates as issued and null where calls overlap)
SpecSeq == Init /\ [][NextSeq]_vars

\* ------------------------------------------------------------ routes
\* the poem routes, and the ledger service called one call at a time
NextRoutes ==
    \/ \E p \in Poems, b \in Bodies, ok \in BOOLEAN : PostPoem(p, b, ok)
    \/ \E p \in Poems, b \in Bodies, ok \in BOOLEAN : PutPoem(p, b, ok)
    \/ \E p \in Poems : DeletePoem(p)
    \/ \E p \in Poems, b \in Bodies : AllIdle /\ CallCreate("c1", p, b)
    \/ \E p \in Poems, b \in Bodies : AllIdle /\ CallUpdate("c1", p, b, "ObjectId")
    \/ \E k \in Callers : FindPrevious(k)
    \/ \E k \in Callers : Save(k)
    \/ \E k \in Callers : SaveFails(k)

SpecRoutes == Init /\ [][NextRoutes]_vars

\* ------------------------------------------------------------ file ledgers
\* FileBasedLedger in a process that does not crash
NextAppend ==
    \/ \E mkdirOk, writeOk \in BOOLEAN : Initialize(mkdirOk, writeOk)
    \/ \E k \in Callers, entry \in FileEntries : CallAppendEntry(k, entry)
    \/ \E k \in Callers, ioOk \in BOOLEAN : AppendFile(k, ioOk)
    \/ \E filter \in Filters : GetEntries(filter)
    \/ \E readOk \in BOOLEAN : VerifyIntegrity(readOk)
    \/ GetStats

SpecAppend == Init /\ [][NextAppend]_vars

\* FileBasedLedger with calls of initialize that overlap each other and the
\* appends
NextInit ==
    \/ \E k \in Callers, mkdirOk \in BOOLEAN : InitializeAccess(k, mkdirOk)
    \/ \E k \in Callers, writeOk \in BOOLEAN : InitializeWrite(k, writeOk)
    \/ \E k \in Callers, entry \in FileEntries : CallAppendEntry(k, entry)
    \/ \E k \in Callers, ioOk \in BOOLEAN : AppendFile(k, ioOk)
    \/ \E filter \in Filters : GetEntries(filter)

SpecInit == Init /\ [][NextInit]_vars

\* FileBasedLedger in processes that may die while writing
NextFile ==
    \/ NextAppend
    \/ \E k \in Callers, n \in CutPoints : CrashInAppend(k, n)

SpecFile == Init /\ [][NextFile]_vars

NextLog ==
    \/ \E mkdirOk \in BOOLEAN : NewFileLedger(mkdirOk)
    \/ \E p \in Poems, t \in {"POEM_CREATED", "POEM_UPDATED", "POEM_DELETED"},
            ioOk \in BOOLEAN : Append_(p, t, ioOk)

SpecLog == Init /\ [][NextLog]_vars

\* ------------------------------------------------------------ tampering
\* a stored digest with one byte flipped
Flip(h) == h \o <<"^1">>

IsFlipped(h) == h[Len(h)] = "^1"

\* a simulated tamper: the contentHash of one stored entry is changed, every
\* other field and link is left as it was
Tamper(i) ==
    /\ \A j \in 1..Len(ledger) : ~IsFlipped(ledger[j].contentHash)
    /\ ledger' = [ledger EXCEPT ![i].contentHash = Flip(@)]
    /\ out' = NoOut
    /\ UNCHANGED <<clock, call, routeVars, fileVars>>

NextTamper ==
    \/ NextSeq
    \/ \E i \in 1..Len(ledger) : Tamper(i)

SpecTamper == Init /\ [][NextTamper]_vars

\* ------------------------------------------------------------ immutability
\* the store without entry i
RemoveAt(led, i) == SubSeq(led, 1, i - 1) \o SubSeq(led, i + 1, Len(led))

\* entry.save() of a stored entry (isNew is false) whose contentHash was
\* assigned another value: the hook's error rejects it, else the store would
\* take the change
SaveAgain(i) ==
    /\ IF preSave(FALSE) = "next"
       THEN /\ ledger' = [ledger EXCEPT ![i].contentHash = Flip(@)]
            /\ out' = [op |-> "save", poemId |-> ledger[i].poemId, status |-> "ok",
                       error |-> "none"]
       ELSE /\ out' = Thrown("save", ledger[i].poemId, preSave(FALSE))
            /\ UNCHANGED ledger
    /\ UNCHANGED <<clock, call, routeVars, fileVars>>

\* entry.remove() of a stored entry
Remove(i) ==
    /\ IF preRemove = "next"
       THEN /\ ledger' = RemoveAt(ledger, i)
            /\ out' = [op |-> "remove", poemId |-> ledger[i].poemId, status |-> "ok",
                       error |-> "none"]
       ELSE /\ out' = Thrown("remove", ledger[i].poemId, preRemove)
            /\ UNCHANGED ledger
    /\ UNCHANGED <<clock, call, routeVars, fileVars>>

\* deleteOne of a stored entry
DeleteOne(i) ==
    /\ IF preDeleteOne = "next"
       THEN /\ ledger' = RemoveAt(ledger, i)
            /\ out' = [op |-> "deleteOne", poemId |-> ledger[i].poemId, status |-> "ok",
                       error |-> "none"]
       ELSE /\ out' = Thrown("deleteOne", ledger[i].poemId, preDeleteOne)
            /\ UNCHANGED ledger
    /\ UNCHANGED <<clock, call, routeVars, fileVars>>

\* the ledger service called one call at a time, and the three operations
\* the schema hooks guard tried on stored entries
NextImmutable ==
    \/ NextSeq
    \/ \E i \in 1..Len(ledger) : SaveAgain(i)
    \/ \E i \in 1..Len(ledger) : Remove(i)
    \/ \E i \in 1..Len(ledger) : DeleteOne(i)

SpecImmutable == Init /\ [][NextImmutable]_vars

\* ------------------------------------------------------------ claims
SameScope(e, f) ==
    \/ e.poemId = f.poemId
    \/ e.eventType = "POEM_CREATED" /\ f.eventType = "POEM_CREATED"

\* C1: appends of the same chain scope never leave two entries with the same
\* previousHash (no fork), also when they overlap.
C1_NoFork ==
    \A i, j \in 1..Len(ledger) :
        i # j /\ SameScope(ledger[i], ledger[j])
            => ledger[i].previousHash # ledger[j].previousHash

\* C2: when calls run one at a time and each poem is created once, every
\* poem's entries in creation order are linked: verifyChainIntegrity is true.
C2_ChainsLinked == \A p \in Poems : verifyChainIntegrity(ledger, p)

\* a poem's update follows the creation of another poem
C2_Witness ==
    \E i, j, k \in 1..Len(ledger) :
        /\ i < j /\ j < k
        /\ ledger[i].poemId = ledger[k].poemId
        /\ ledger[j].poemId # ledger[k].poemId
        /\ ledger[k].eventType = "POEM_UPDATED"

TamperedPoems ==
    {ledger[i].poemId : i \in {j \in 1..Len(ledger) : IsFlipped(ledger[j].contentHash)}}

\* C3: once the contentHash of a stored entry was changed, chain verification
\* of its poem reports the chain invalid.
C3_TamperDetected ==
    /\ out.op = "verifyChainIntegrity" /\ out.poemId \in TamperedPoems
            => ~out.valid
    /\ out.op = "verifyAuthorship" /\ out.poemId \in TamperedPoems /\ out.status = "ok"
            => ~out.isValid /\ out.reason = "Ledger chain integrity compromised"

ValidChain(led, p) ==
    /\ getAuthorshipChain(led, p) # <<>>
    /\ verifyChainIntegrity(led, p)

FullyValid(r) ==
    /\ r.status = "ok"
    /\ r.isValid /\ r.certificateIntegrity /\ r.poemIntegrity

\* C4: for a poem whose chain is valid, generateAuthorshipCertificate returns a
\* certificate that validateCertificate, on the same ledger, finds fully valid.
C4_IssueThenValidate ==
    [][\A p \in Poems :
        GenerateAuthorshipCertificate(p) /\ ValidChain(ledger, p)
            => /\ out'.status = "ok"
               /\ FullyValid(validateCertificate(ledger', out'.certificate))]_vars

CertificateIntact(cert) ==
    /\ CertificateHashOf(cert) = generateContentHash(CertificateData(cert))
    /\ DigitalSignatureOf(cert) = generateSignature(CertificateData(cert))

\* C5: validating an intact certificate after one more entry was appended to
\* its poem's chain reports the certificate intact and the chain drifted.
C5_StaleNotForged ==
    [][\A cert \in Certificates(ledger) :
        (/\ ValidateCertificate(cert)
         /\ CertificateIntact(cert)
         /\ Len(getAuthorshipChain(ledger, cert.poemId)) = cert.chainLength + 1)
            => /\ out'.status = "ok"
               /\ out'.certificateIntegrity
               /\ ~out'.poemIntegrity]_vars

\* C6: every entry that was stored stays where it is, with all its fields:
\* the ledger only grows.
C6_EntriesOnlyGrow ==
    [][/\ Len(ledger') >= Len(ledger)
       /\ SubSeq(ledger', 1, Len(ledger)) = ledger]_vars

\* every kind of read has run over a ledger of two entries
C6_Witness ==
    /\ Len(ledger) >= 2
    /\ out.op = "validateCertificate"

HasEntry(led, p, type) ==
    \E i \in 1..Len(led) : led[i].poemId = p /\ led[i].eventType = type

AppendedEntry(p, type) ==
    /\ Len(ledger') = Len(ledger) + 1
    /\ ledger'[Len(ledger')].poemId = p
    /\ ledger'[Len(ledger')].eventType = type

\* C7: when a poem route has persisted a creation, an update or a deletion and
\* the ledger store accepts writes, the ledger holds an entry of the matching
\* type for that poem when the request completes.
C7_RouteEventsRecorded ==
    [][\A p \in Poems :
        /\ (\E b \in Bodies : PostPoem(p, b, TRUE))
                => HasEntry(ledger', p, "POEM_CREATED")
        /\ (\E b \in Bodies : PutPoem(p, b, TRUE)) /\ poems[p].exists
                => AppendedEntry(p, "POEM_UPDATED")
        /\ DeletePoem(p) /\ poems[p].exists
                => HasEntry(ledger', p, "POEM_DELETED")]_vars

\* C8: a file ledger append that wrote nothing tells its caller so: it
\* returns null or throws, which a successful append never does.
C8_NoSilentFailure ==
    ret.api \in {"appendEntry", "append"} /\ ~ret.wrote
        => ret.returned \in {"null", "throw"}

\* the lines of the file, the text after the last line feed included
FileLines(content) == Split(content, <<>>)

TruncatedTail(content) ==
    LET lines == FileLines(content)
    IN  /\ lines[Len(lines)] # <<>>
        /\ ~Parses(lines[Len(lines)])
        /\ \A i \in 1..(Len(lines) - 1) : Parses(lines[i])

\* C9: when the file ends in a line cut off mid-write, getEntries returns the
\* entries of the whole lines before it, in file order, and nothing else.
C9_TruncatedTailIgnored ==
    ret.api = "getEntries" /\ isReady /\ TruncatedTail(fs.content)
        => LET lines == FileLines(fs.content)
           IN  ret.value = getEntries(
                    SubSeq(fs.content, 1, Len(fs.content) - Len(lines[Len(lines)])),
                    ret.filter)

\* C10: the block hash recomputed from an entry's stored contentHash,
\* previousHash, metadata.originalTimestamp and authorId is the stored one.
C10_BlockHashRecomputes ==
    \A i \in 1..Len(ledger) :
        generateBlockHash(ledger[i].contentHash, ledger[i].previousHash,
                          toISOString(ledger[i].originalTimestamp),
                          <<ledger[i].authorId>>)
            = ledger[i].blockHash

\* C11: every entry with a previousHash links to an entry of its own poem,
\* the scope that verifyChainIntegrity walks, whether createPoemEntry or
\* updatePoemEntry wrote it.
C11_LinksWithinPoem ==
    \A i \in 1..Len(ledger) :
        ledger[i].previousHash # Null
            => \E j \in 1..Len(ledger) :
                /\ j # i
                /\ ledger[j].poemId = ledger[i].poemId
                /\ ledger[j].blockHash = ledger[i].previousHash

\* C12: only the first entry ever written has previousHash = null, so at most
\* one entry of the ledger has, also when createPoemEntry calls overlap.
C12_OneNullLink ==
    \A i \in 1..Len(ledger) : ledger[i].previousHash = Null => i = 1

\* C13: verifyAuthorship of a poem without ledger entries answers with a valid
\* result: the empty chain is vacuously valid.
C13_EmptyChainValid ==
    (/\ out.op = "verifyAuthorship"
     /\ out.status = "ok"
     /\ SelectPoem(ledger, out.poemId) = <<>>)
        => out.isValid

\* C14: the ledger never holds two entries with the same content hash, poem,
\* event type and timestamp: the second append of the two is rejected.
C14_DuplicateRejected ==
    \A i, j \in 1..Len(ledger) :
        i # j =>
            ~ /\ ledger[i].contentHash = ledger[j].contentHash
              /\ ledger[i].poemId = ledger[j].poemId
              /\ ledger[i].eventType = ledger[j].eventType
              /\ ledger[i].originalTimestamp = ledger[j].originalTimestamp

\* C15: generateAuthorshipCertificate throws, and returns no certificate, for
\* a poem whose chain is not valid (no entries, or a broken link).
C15_NoCertificateForInvalidChain ==
    [][\A p \in Poems :
        GenerateAuthorshipCertificate(p) /\ ~ValidChain(ledger, p)
            => out'.status = "throw"]_vars

\* generateAuthorshipCertificate has thrown for a poem with entries and a
\* broken link
C15_Witness ==
    /\ out.op = "generateAuthorshipCertificate"
    /\ out.status = "throw"
    /\ getAuthorshipChain(ledger, out.poemId) # <<>>
    /\ ~verifyChainIntegrity(ledger, out.poemId)

\* C16: validateCertificate of a structurally invalid certificate (null, {},
\* or one without poemId, certificateHash or digitalSignature) returns
\* isValid = false and does not throw.
C16_MalformedIsNegative ==
    [][\A cert \in MalformedCertificates(ledger) :
        ValidateCertificate(cert)
            => out'.status = "ok" /\ ~out'.isValid]_vars

\* C17: an issued certificate recomputes to its hash and signature, and with
\* the value of any other property changed validateCertificate reports
\* certificateIntegrity = false.
C17_AlteredFieldDetected ==
    [][/\ \A cert \in CurrentCertificates(ledger) : CertificateIntact(cert)
       /\ \A cert \in AlteredCertificates(ledger) :
            ValidateCertificate(cert)
                => out'.status = "ok" /\ ~out'.certificateIntegrity]_vars

\* the stored entries of a poem, in the order they were stored
EntriesOf(p) == SelectSeq(ledger, LAMBDA e : e.poemId = p)

\* C19: getAuthorshipHistory returns one summary per entry of the poem and
\* none of another poem, in ascending createdAt order; after a creation and
\* an update that is POEM_CREATED then POEM_UPDATED, the second entry linked
\* to the first.
C19_HistoryIsPoemChain ==
    out.op = "getAuthorshipHistory" =>
        LET es == EntriesOf(out.poemId)
            h == out.history
        IN  /\ Len(h) = Len(es)
            /\ \A i \in 1..Len(h) :
                /\ h[i].blockHash = es[i].blockHash
                /\ h[i].eventType = es[i].eventType
            /\ \A i \in 1..Len(h) : \A j \in 1..Len(h) :
                i < j => h[i].timestamp < h[j].timestamp
            /\ Len(es) = 2
                => /\ h[1].eventType = "POEM_CREATED"
                   /\ h[2].eventType = "POEM_UPDATED"
                   /\ es[2].previousHash = es[1].blockHash

\* the history of a poem created and updated once, read from a ledger that
\* also holds an entry of another poem
C19_Witness ==
    /\ out.op = "getAuthorshipHistory"
    /\ Len(out.history) = 2
    /\ Len(ledger) = 3

\* the file holds whole lines only: it is empty or ends in a line feed, and
\* every line parses
WholeLines(content) ==
    LET lines == FileLines(content)
    IN  /\ lines[Len(lines)] = <<>>
        /\ \A i \in 1..(Len(lines) - 1) : Parses(lines[i])

\* an object as JSON has it: without its undefined properties
Defined(obj) == SelectSeq(obj, LAMBDA pr : pr[2] # "undefined")

\* C18: an appendEntry that succeeds adds one whole line at the end of the
\* file and changes nothing before it; however the calls overlap, the file
\* is whole lines only, one per successful append, and the new line parses
\* as the entry the call returns.
C18_AppendsWholeLines ==
    [][\A k \in Callers :
        AppendFile(k, TRUE) =>
            LET added == SubSeq(fs'.content, Len(fs.content) + 1, Len(fs'.content))
            IN  /\ SubSeq(fs'.content, 1, Len(fs.content)) = fs.content
                /\ LineCount(added) = 1
                /\ added[Len(added)] = "\n"
                /\ Parses(SubSeq(added, 1, Len(added) - 1))
                /\ JSONparse(SubSeq(added, 1, Len(added) - 1)) = Defined(ret'.value[1])
                /\ WholeLines(fs'.content)
                /\ LineCount(fs'.content) = clock']_vars

\* an append has written its line, the second of the file, while another
\* call was in flight
C18_Witness ==
    /\ ret.api = "appendEntry" /\ ret.wrote
    /\ LineCount(fs.content) >= 2
    /\ AppendsInFlight >= 1

\* the instant a timestamp names
TimeOf(token) == CHOOSE t \in 0..MaxLines : ToString(t) = token

Matches(e, filter) == \A i \in 1..Len(filter) : Get(e, filter[i][1]) = filter[i][2]

\* the entries of the lines of the file
StoredEntries ==
    LET lines == FileLines(fs.content)
    IN  [i \in 1..(Len(lines) - 1) |-> JSONparse(lines[i])]

\* C20: getEntries(filter) returns the stored entries that match every field
\* of the filter, in the order of the file, and that order is ascending in
\* the entries' timestamps.
C20_FilteredInOrder ==
    ret.api = "getEntries" /\ isReady =>
        /\ ret.value = SelectSeq(StoredEntries, LAMBDA e : Matches(e, ret.filter))
        /\ \A i \in 1..Len(ret.value) : \A j \in 1..Len(ret.value) :
            i < j => TimeOf(Get(ret.value[i], "timestamp"))
                        <= TimeOf(Get(ret.value[j], "timestamp"))

\* a digest that was computed: a hash or a keyed hash of some string
IsDigest(h) == Len(h) >= 2 /\ h[1] \in {"sha256(", "hmac("} /\ h[Len(h)] = ")"

\* entry i of led has its contentHash, blockHash and signature set, its
\* previousHash null or the blockHash of an entry stored before it, and the
\* blockHash and signature are those computed from the entry's own fields
\* (the author printed as createPoemEntry or updatePoemEntry was given it)
CompleteEntry(led, i) ==
    LET e == led[i]
        ts == toISOString(e.originalTimestamp)
    IN  /\ IsDigest(e.contentHash) /\ IsDigest(e.blockHash) /\ IsDigest(e.signature)
        /\ IF e.previousHash = Null THEN TRUE
           ELSE \E j \in 1..(i - 1) : led[j].blockHash = e.previousHash
        /\ \E shape \in {"ObjectId", "Document"} :
                e.blockHash = generateBlockHash(e.contentHash, e.previousHash, ts,
                                    AuthorString([id |-> e.authorId, shape |-> shape]))
        /\ e.signature = generateSignature(e.contentHash \o e.blockHash \o ts)
        /\ e.witness = generateSignature(<<"witness-">> \o e.blockHash)

CallFailed(o) ==
    /\ o.op \in {"createPoemEntry", "updatePoemEntry"}
    /\ o.ret # "ledgerEntry"

\* C21: whatever calls are in flight, have failed or were abandoned, every
\* stored entry is complete (contentHash, blockHash, previousHash link and
\* signature set and consistent with each other); the ledger changes only by
\* a call that returns its entry, and a call that fails leaves it as it was.
C21_AllOrNothing ==
    [][/\ \A i \in 1..Len(ledger') : CompleteEntry(ledger', i)
       /\ CallFailed(out') => ledger' = ledger
       /\ ledger' # ledger =>
            /\ out'.op \in {"createPoemEntry", "updatePoemEntry"}
            /\ out'.ret = "ledgerEntry"
            /\ Len(ledger') = Len(ledger) + 1
            /\ SubSeq(ledger', 1, Len(ledger)) = ledger]_vars

\* a save has failed while another call is between its read of the tip and
\* its save, over a ledger that holds entries
C21_Witness ==
    /\ Len(ledger) >= 1
    /\ CallFailed(out)
    /\ out.ret = "store error"
    /\ \E k \in Callers : call[k].pc = "save"

\* C22: saving a stored entry again, removing it or deleting it with
\* deleteOne is rejected with the error code IMMUTABLE_LEDGER, and the store
\* is left as it was.
C22_StoredEntriesImmutable ==
    [][\A i \in 1..Len(ledger) :
        SaveAgain(i) \/ Remove(i) \/ DeleteOne(i)
            => /\ out'.status = "throw"
               /\ out'.error = "IMMUTABLE_LEDGER"
               /\ ledger' = ledger]_vars

\* a second save of an entry was rejected in a ledger of two entries
C22_Witness ==
    /\ out.op = "save"
    /\ out.status = "throw"
    /\ out.error = "IMMUTABLE_LEDGER"
    /\ Len(ledger) >= 2

\* C23: over a file whose lines were all written by appendEntry and not
\* changed since, verifyIntegrity returns true, whatever fields the appended
\* objects carry (a timestamp of their own, as the auth routes' entries do).
C23_UntouchedFileVerifies ==
    ret.api = "verifyIntegrity" /\ isReady /\ ret.readOk
        => ret.returned = "true"

\* C24: the poem creation route answers 201 whenever the poem was saved,
\* whether or not the file ledger write or the ledger entry creation after
\* the save succeeds.
C24_SavedPoemAnswers201 ==
    [][\A p \in Poems, b \in Bodies, storeOk \in BOOLEAN :
        PostPoem(p, b, storeOk) /\ poems'[p].exists
            => res' = Response("POST", p, 201)]_vars

NoPreviousEntry == "No previous ledger entry found for poem update"

\* C25: updatePoemEntry for a poem without a ledger entry throws 'No
\* previous ledger entry found for poem update' and stores nothing; so every
\* POEM_UPDATED entry has a previousHash, that of an earlier entry of its
\* poem, and is never the first entry of its poem's chain.
C25_UpdateNeedsPreviousEntry ==
    [][/\ \A k \in Callers :
            (/\ FindPrevious(k)
             /\ call[k].op = "updatePoemEntry"
             /\ SelectPoem(ledger, call[k].poemId) = <<>>)
                => /\ out' = Outcome(call[k], NoPreviousEntry)
                   /\ call'[k] = Idle
                   /\ ledger' = ledger
       /\ \A i \in 1..Len(ledger') :
            ledger'[i].eventType = "POEM_UPDATED"
                => /\ ledger'[i].previousHash # Null
                   /\ \E j \in 1..(i - 1) :
                        /\ ledger'[j].poemId = ledger'[i].poemId
                        /\ ledger'[j].blockHash = ledger'[i].previousHash
                   /\ getAuthorshipChain(ledger', ledger'[i].poemId)[1] # ledger'[i]]_vars

\* an update of a poem without entries has thrown while the ledger holds an
\* entry of another poem
C25_Witness ==
    /\ out.op = "updatePoemEntry"
    /\ out.ret = NoPreviousEntry
    /\ SelectPoem(ledger, out.poemId) = <<>>
    /\ Len(ledger) >= 1

\* every line of the file parses and carries the hash verifyIntegrity expects
AllLinesVerify(content) ==
    LET all == FileLines(content)
        lines == SelectSeq(all, LAMBDA line : line # <<>>)
    IN  \A i \in 1..Len(lines) :
            /\ Parses(lines[i])
            /\ Get(JSONparse(lines[i]), "entryHash") = ExpectedHash(JSONparse(lines[i]))

\* C26: verifyIntegrity returns false whenever the file cannot be read or
\* holds a line that is not valid JSON; it returns true only when every line
\* was parsed and its entryHash recomputed and matched.
C26_UnreadableIsNotIntact ==
    ret.api = "verifyIntegrity" =>
        /\ ~ret.readOk => ret.returned = "false"
        /\ ~WholeLines(fs.content) => ret.returned = "false"
        /\ ret.returned = "true" => ret.readOk /\ AllLinesVerify(fs.content)

\* the poem has entries, each linked to the one before it, and the content
\* hashes to the contentHash of the last of them
AuthorshipHolds(es, content) ==
    /\ Len(es) >= 1
    /\ \A i \in 1..(Len(es) - 1) : es[i + 1].previousHash = es[i].blockHash
    /\ generateContentHash(content) = es[Len(es)].contentHash

\* C27: verifyAuthorship(poemId, currentContent) returns isValid = true
\* exactly when the poem has at least one entry, every adjacent pair of its
\* entries is linked and the hash of currentContent is the contentHash of
\* its latest entry; then originalAuthor and creationDate are those of the
\* first entry and totalModifications is the number of entries minus one.
C27_VerifyAuthorshipExact ==
    [][\A p \in Poems : \A content \in Contents(ledger, p) \ {Undefined} :
        VerifyAuthorship(p, content) =>
            LET es == EntriesOf(p)
            IN  /\ out'.status = "ok"
                /\ out'.isValid <=> AuthorshipHolds(es, content)
                /\ out'.isValid =>
                    /\ out'.originalAuthor = es[1].authorId
                    /\ out'.creationDate = es[1].createdAt
                    /\ out'.totalModifications = Len(es) - 1]_vars

\* a poem with more than one entry was verified against its latest content
C27_Witness ==
    /\ out.op = "verifyAuthorship"
    /\ out.status = "ok"
    /\ out.isValid
    /\ out.totalModifications >= 1

LastEntry(led) == led[Len(led)]

\* C28: when a ledger entry is recorded for the title, body and author that
\* the Poem document holds, the entry's contentHash is the contentHash that
\* the poem routes stored on the document.
C28_LedgerHashIsPoemHash ==
    [][/\ \A p \in Poems, b \in Bodies :
            PutPoem(p, b, TRUE) /\ AppendedEntry(p, "POEM_UPDATED")
                => LastEntry(ledger').contentHash = poems'[p].contentHash
       /\ \A k \in Callers :
            (/\ Save(k)
             /\ Len(ledger') = Len(ledger) + 1
             /\ poems[call[k].poemId] = PoemDoc(call[k].poemId, call[k].body))
                => LastEntry(ledger').contentHash = poems[call[k].poemId].contentHash]_vars

\* C29: initialize never changes an existing ledger file: however often it is
\* called, before or after appends, every line appended so far stays.
C29_InitializeKeepsFile ==
    [][\A k \in Callers :
        (\/ \E mkdirOk \in BOOLEAN : InitializeAccess(k, mkdirOk)
         \/ \E writeOk \in BOOLEAN : InitializeWrite(k, writeOk))
            => (fs.exists => fs' = fs)]_vars

\* C30: called while the ledger is not ready (initialize not yet called, or
\* failed), appendEntry returns null and writes nothing, getEntries returns
\* the empty list, verifyIntegrity returns false and getStats reports
\* totalEntries = 0.
C30_NotReadyAnswers ==
    [][~isReady =>
        /\ \A k \in Callers, entry \in FileEntries :
            CallAppendEntry(k, entry)
                => /\ ret'.api = "appendEntry"
                   /\ ret'.returned = "null"
                   /\ fs' = fs
                   /\ appends' = appends
        /\ \A filter \in Filters : GetEntries(filter) => ret'.value = <<>>
        /\ \A readOk \in BOOLEAN : VerifyIntegrity(readOk) => ret'.returned = "false"
        /\ GetStats => ret'.stats.totalEntries = 0]_vars

\* getStats has answered from a ledger that is not ready, its initialize
\* having failed, while the file holds lines
C30_Witness ==
    /\ ret.api = "getStats"
    /\ ~isReady
    /\ LineCount(fs.content) >= 1
    /\ ret.stats.totalEntries = 0

====
